---- MODULE Spec2Model ----
(***************************************************************************)
(* Verification model of parts of opm-models / eWoms:                      *)
(*   - FlashVolumeVariables::update     (ewoms/models/flash)               *)
(*   - InjectionSoil, InjectionProblem  (test/twophase/injectionproblem)   *)
(*   - co2injection_immiscible_ni_ecfv  (tests)                            *)
(*   - MultiPhaseBaseProblem            (ewoms/models/common)              *)
(*   - VtkBlackOilModule                (ewoms/io)                         *)
(*   - Stokes2cniModel                  (dumux/freeflow/stokes2cni)        *)
(* Real-valued quantities are kept as scaled integers; the scale of each   *)
(* is stated where the quantity is defined.                                *)
(***************************************************************************)
EXTENDS Integers, Sequences, FiniteSets, TLC

VARIABLES
    vv,        \* FlashVolumeVariables instances: fluidState_, porosity_, intrinsicPerm_, relativePermeability_
    problem,   \* the problem's soil/rock data read by update: per-dof porosity, permeability, material-law parameters
    call,      \* the arguments of the most recent FlashVolumeVariables::update call (or NoCall)
    soil,      \* the InjectionSoil object: lowK_, highK_, layerBottom_
    soilRet,   \* the most recent return value of InjectionSoil::K / porosity (or NoCall)
    enableGravity, \* the run-time parameter EnableGravity
    overloaded,    \* the methods of MultiPhaseBaseProblem the Implementation overloads
    gravity_,      \* MultiPhaseBaseProblem::gravity_
    result,        \* the DimMatrix handed to intersectionIntrinsicPermeability by reference
    probRet,       \* the most recent call on the problem and its outcome (or NoCall)
    level,         \* the refinement level of every grid element
    marks,         \* the adaptation mark of every grid element
    markRet,       \* the most recent return value of markForGridAdaptation (or NoCall)
    params,        \* the run-time parameters VtkWrite... of VtkBlackOilModule
    buffers,       \* the five ScalarBuffer members of VtkBlackOilModule
    allocated,     \* whether allocBuffers has been called
    vtkState,      \* "ok", or "undefined" once an element outside a buffer was written
    vtkCall,       \* the most recent call on the VtkBlackOilModule (or NoCall)
    writer,        \* the VTK multi-writer handed to Stokes2cniModel::addOutputVtkFields
    stokesCall,    \* the most recent addOutputVtkFields call (or NoCall)
    flashTolerance, \* the run-time parameter FlashTolerance
    baseEpsilon,   \* model.localJacobian().baseEpsilon()
    steps,         \* the calls made by the most recent FlashVolumeVariables::update, in order
    logging,       \* whether the calls of update are recorded in steps
    processed,     \* the elements handed to processElement since the buffers were allocated
    inj,           \* the InjectionProblem object
    injRet,        \* the most recent call on the InjectionProblem and what it returned (or NoCall)
    prog           \* the co2injection_immiscible_ni_ecfv process: its position and exit status

flashVars == <<vv, problem, call, soil, soilRet>>
problemVars == <<enableGravity, overloaded, gravity_, result, probRet>>
gridVars == <<level, marks, markRet>>
vtkVars == <<params, buffers, allocated, vtkState, vtkCall, processed>>
stokesVars == <<writer, stokesCall>>
stepVars == <<flashTolerance, baseEpsilon, steps, logging>>
injVars == <<inj, injRet>>
progVars == <<prog>>
vars == <<flashVars, problemVars, gridVars, vtkVars, stokesVars, stepVars, injVars, progVars>>

NoCall == [op |-> "none"]
NoHint == 0

----------------------------------------------------------------------------
(* Bounds of the model                                                      *)

\* number of FlashVolumeVariables instances alive at the same time
NumInst == 2
\* number of elements of the grid
NumElements == 2
\* number of times output is written through one writer
MaxOutputCalls == 2

----------------------------------------------------------------------------
(* FlashVolumeVariables                                                     *)

\* GET_PROP_VALUE(TypeTag, NumPhases) and NumComponents of the flash model
numPhases == 2
numComponents == 2

Inst == 1..NumInst
Phases == 0..(numPhases - 1)
Components == 0..(numComponents - 1)
Dofs == {0, 1}

\* the primary variables of one degree of freedom: the total molar densities
\* priVars[cTot0Idx + compIdx] and the temperature the energy module reads
PriVarsSet ==
    {[cTot |-> [c \in Components |-> 0], temperature |-> 280],
     [cTot |-> [c \in Components |-> c], temperature |-> 300],
     [cTot |-> [c \in Components |-> 1], temperature |-> 300]}

\* values of the parameter FlashTolerance and of the base epsilon
FlashToleranceValues == {-1, 0, 5}
BaseEpsilonValues == {18, 180}

\* values an uninitialised Scalar member can hold after construction
Garbage == {-1, -2}

\* a default-constructed FlashVolumeVariables: no member is initialised
Uninitialized(g) ==
    [fluidState |-> [temperature |-> g, x |-> g, viscosity |-> [p \in Phases |-> g]],
     porosity |-> g,
     intrinsicPerm |-> g,
     relativePermeability |-> [p \in Phases |-> g]]

\* whether the members of an instance have been computed by an update
Computed(this) == this.porosity \notin Garbage

\* the problem data of the control volumes (cell-indexed): porosity in percent,
\* permeability in 1e-14 m^2, material-law parameter set by its number
ProblemData ==
    [porosity |-> [d \in Dofs |-> 30 + 5 * d],
     intrinsicPermeability |-> [d \in Dofs |-> IF d = 0 THEN 100 ELSE 5],
     materialLawParams |-> [d \in Dofs |-> 1 + d]]

RECURSIVE SumTo(_, _)
SumTo(f, n) == IF n < 0 THEN 0 ELSE f[n] + SumTo(f, n - 1)

\* EnergyVolumeVariables::updateTemperatures_: the temperature of all phases is
\* the one given by the primary variables
updateTemperatures_(fs, priVars) ==
    [fs EXCEPT !.temperature = priVars.temperature]

\* FlashSolver::guessInitial: composition, pressure and saturation of every
\* phase are set from the total molarities alone
guessInitial(fs, cTotal) ==
    [fs EXCEPT !.x = SumTo(cTotal, numComponents - 1) % 3]

\* FluidState::assign without the setTemperature(T) that follows it: the
\* temperature of the hint is taken over with everything else
assignFromHintWhole(fs, hintFs) == hintFs

\* FluidState::assign followed by setTemperature(T): every quantity is copied
\* from the hint's fluid state, the temperature is kept
assignFromHint(fs, hintFs) ==
    [hintFs EXCEPT !.temperature = fs.temperature]

\* FlashSolver::solve: compositions, densities and pressures of all phases,
\* found iteratively from the initial guess held by the fluid state
solve(fs, materialParams, cTotal) ==
    [fs EXCEPT !.x = (fs.x + 2 * cTotal[0] + cTotal[1] + materialParams
                        + (IF fs.temperature > 280 THEN 1 ELSE 0)) % 3]

\* FluidSystem::viscosity of one phase
viscosity(fs, phaseIdx) == 1 + ((fs.x + phaseIdx + (IF fs.temperature > 280 THEN 1 ELSE 0)) % 2)

\* the loop over the phases that sets the phase viscosities
setViscosities(fs) ==
    [fs EXCEPT !.viscosity = [p \in Phases |-> viscosity(fs, p)]]

\* MaterialLaw::relativePermeabilities
relativePermeabilities(materialParams, fs) ==
    [p \in Phases |-> (fs.x + materialParams * (p + 1)) % 3]

\* ElementContext::thermodynamicHint: a null pointer, or a pointer to the
\* volume variables of another instance that have been computed before
NullHint == [null |-> TRUE]
HintTo(vvs, h) == [null |-> FALSE, fluidState |-> vvs[h].fluidState]

\* update without the initial guess: with a null hint the flash solver starts
\* from whatever the fluid state holds
updateThisWithoutGuess(this, prob, dofIdx, priVars, hint) ==
    LET cTotal == [c \in Components |-> priVars.cTot[c]]
        materialParams == prob.materialLawParams[dofIdx]
        s1 == [this EXCEPT !.fluidState = updateTemperatures_(@, priVars)]
        s2 == IF ~hint.null
              THEN [s1 EXCEPT !.fluidState = assignFromHint(@, hint.fluidState)]
              ELSE s1
        s3 == [s2 EXCEPT !.fluidState = solve(@, materialParams, cTotal)]
        s4 == [s3 EXCEPT !.fluidState = setViscosities(@)]
        s5 == [s4 EXCEPT !.relativePermeability =
                            relativePermeabilities(materialParams, s4.fluidState)]
        s6 == [s5 EXCEPT !.porosity = prob.porosity[dofIdx]]
        s7 == [s6 EXCEPT !.intrinsicPerm = prob.intrinsicPermeability[dofIdx]]
    IN  s7

\* FlashVolumeVariables::update on the instance `this`, for the degree of
\* freedom dofIdx of the element context: priVars are its primary variables,
\* hint its thermodynamic hint
updateThis(this, prob, dofIdx, priVars, hint) ==
    LET cTotal == [c \in Components |-> priVars.cTot[c]]
        materialParams == prob.materialLawParams[dofIdx]
        s1 == [this EXCEPT !.fluidState = updateTemperatures_(@, priVars)]
        s2 == IF ~hint.null
              THEN [s1 EXCEPT !.fluidState = assignFromHint(@, hint.fluidState)]
              ELSE [s1 EXCEPT !.fluidState = guessInitial(@, cTotal)]
        s3 == [s2 EXCEPT !.fluidState = solve(@, materialParams, cTotal)]
        s4 == [s3 EXCEPT !.fluidState = setViscosities(@)]
        s5 == [s4 EXCEPT !.relativePermeability =
                            relativePermeabilities(materialParams, s4.fluidState)]
        s6 == [s5 EXCEPT !.porosity = prob.porosity[dofIdx]]
        s7 == [s6 EXCEPT !.intrinsicPerm = prob.intrinsicPermeability[dofIdx]]
    IN  s7

\* update working on the hint's fluid state in place instead of on a copy
updateSharingHint(vvs, prob, inst, dofIdx, priVars, h) ==
    LET hint == IF h = NoHint THEN NullHint ELSE HintTo(vvs, h)
        new == updateThis(vvs[inst], prob, dofIdx, priVars, hint)
    IN  [vv |-> [v \in DOMAIN vvs |->
                    IF v = inst THEN new
                    ELSE IF v = h THEN [vvs[v] EXCEPT !.fluidState = new.fluidState]
                    ELSE vvs[v]],
         problem |-> prob]

\* the effect of one update call on all instances and on the problem: only
\* the members of the updated instance are written; the hint and the problem
\* are read through const references
update(vvs, prob, inst, dofIdx, priVars, h) ==
    LET hint == IF h = NoHint THEN NullHint ELSE HintTo(vvs, h)
    IN  [vv |-> [vvs EXCEPT ![inst] = updateThis(vvs[inst], prob, dofIdx, priVars, hint)],
         problem |-> prob]

\* the tolerance update hands to the flash solver: the parameter FlashTolerance
\* if it is positive, else baseEpsilon / (100 * 18e-3); both in the same unit,
\* 18e-3 written as 18 / 1000
solverTolerance(param, eps) ==
    IF param <= 0 THEN (eps * 1000) \div (100 * 18) ELSE param

\* the calls of the loop over the phases that sets the phase viscosities
viscosityCalls(fs) ==
    [i \in 1..numPhases |-> [fn |-> "FluidSystem::viscosity", phaseIdx |-> i - 1,
                             fluidState |-> fs]]

\* the statements of update that come after the flash solve, as calls: fs is
\* the fluid state the flash solver has left, visc the one with viscosities set
callsAfterSolve(fs, visc, materialParams) ==
    viscosityCalls(fs)
    \o <<[fn |-> "MaterialLaw::relativePermeabilities", materialParams |-> materialParams,
          fluidState |-> visc],
         [fn |-> "Problem::porosity"],
         [fn |-> "Problem::intrinsicPermeability"],
         [fn |-> "VelocityVolumeVariables::update_"],
         [fn |-> "EnergyVolumeVariables::update_", fluidState |-> visc],
         [fn |-> "DiffusionVolumeVariables::update_", fluidState |-> visc]>>

\* update calling guessInitial whether or not there is a hint
updateCallsGuessAlways(this, prob, dofIdx, priVars, hint, param, eps) ==
    LET cTotal == [c \in Components |-> priVars.cTot[c]]
        materialParams == prob.materialLawParams[dofIdx]
        s1 == updateTemperatures_(this.fluidState, priVars)
        s2 == guessInitial(IF ~hint.null THEN assignFromHint(s1, hint.fluidState) ELSE s1,
                           cTotal)
        s3 == solve(s2, materialParams, cTotal)
        s4 == setViscosities(s3)
    IN  <<[fn |-> "ParentType::update"],
          [fn |-> "EnergyVolumeVariables::updateTemperatures_"]>>
        \o (IF ~hint.null
            THEN <<[fn |-> "FluidState::assign", fluidState |-> hint.fluidState],
                   [fn |-> "FluidState::setTemperature", temperature |-> s1.temperature]>>
            ELSE <<>>)
        \o <<[fn |-> "FlashSolver::guessInitial", cTotal |-> cTotal],
             [fn |-> "FlashSolver::solve", fluidState |-> s2,
              materialParams |-> materialParams, cTotal |-> cTotal,
              tolerance |-> solverTolerance(param, eps)]>>
        \o callsAfterSolve(s3, s4, materialParams)

\* update setting the viscosities before the flash solver has run
updateCallsViscosityFirst(this, prob, dofIdx, priVars, hint, param, eps) ==
    LET cTotal == [c \in Components |-> priVars.cTot[c]]
        materialParams == prob.materialLawParams[dofIdx]
        s1 == updateTemperatures_(this.fluidState, priVars)
        s2 == IF ~hint.null THEN assignFromHint(s1, hint.fluidState)
                            ELSE guessInitial(s1, cTotal)
        s3 == solve(setViscosities(s2), materialParams, cTotal)
    IN  <<[fn |-> "ParentType::update"],
          [fn |-> "EnergyVolumeVariables::updateTemperatures_"]>>
        \o (IF ~hint.null
            THEN <<[fn |-> "FluidState::assign", fluidState |-> hint.fluidState],
                   [fn |-> "FluidState::setTemperature", temperature |-> s1.temperature]>>
            ELSE <<[fn |-> "FlashSolver::guessInitial", cTotal |-> cTotal]>>)
        \o viscosityCalls(s2)
        \o <<[fn |-> "FlashSolver::solve", fluidState |-> setViscosities(s2),
              materialParams |-> materialParams, cTotal |-> cTotal,
              tolerance |-> solverTolerance(param, eps)]>>
        \o SubSeq(callsAfterSolve(s3, s3, materialParams), numPhases + 1, numPhases + 6)

\* the calls FlashVolumeVariables::update makes, in the order of its
\* statements, each with the arguments the claims are about: param is the
\* parameter FlashTolerance, eps the base epsilon of the local Jacobian
updateCalls(this, prob, dofIdx, priVars, hint, param, eps) ==
    LET cTotal == [c \in Components |-> priVars.cTot[c]]
        materialParams == prob.materialLawParams[dofIdx]
        s1 == updateTemperatures_(this.fluidState, priVars)
        s2 == IF ~hint.null THEN assignFromHint(s1, hint.fluidState)
                            ELSE guessInitial(s1, cTotal)
        s3 == solve(s2, materialParams, cTotal)
        s4 == setViscosities(s3)
    IN  <<[fn |-> "ParentType::update"],
          [fn |-> "EnergyVolumeVariables::updateTemperatures_"]>>
        \o (IF ~hint.null
            THEN <<[fn |-> "FluidState::assign", fluidState |-> hint.fluidState],
                   [fn |-> "FluidState::setTemperature", temperature |-> s1.temperature]>>
            ELSE <<[fn |-> "FlashSolver::guessInitial", cTotal |-> cTotal]>>)
        \o <<[fn |-> "FlashSolver::solve", fluidState |-> s2,
              materialParams |-> materialParams, cTotal |-> cTotal,
              tolerance |-> solverTolerance(param, eps)]>>
        \o callsAfterSolve(s3, s4, materialParams)

----------------------------------------------------------------------------
(* InjectionSoil                                                            *)

\* permeabilities in units of 1e-14 m^2, porosity in percent
lowPermeability == 5
highPermeability == 100
layerBottomValue == 22
soilPorosityValue == 30

dim == 2
Dims == 0..(dim - 1)

\* positions handed to the soil functions: inside the high-permeable region,
\* on the bottom of the layer and inside the layer
Position(x0, x1) == [i \in Dims |-> IF i = 0 THEN x0 ELSE IF i = 1 THEN x1 ELSE 0]
SoilPositions == {Position(60, 10), Position(0, 21), Position(30, 22), Position(60, 23)}

IsotropicTensor(val) == [i \in Dims |-> [j \in Dims |-> IF i = j THEN val ELSE 0]]

\* InjectionSoil::InjectionSoil
InjectionSoilCtor ==
    [lowK_ |-> IsotropicTensor(lowPermeability),
     highK_ |-> IsotropicTensor(highPermeability),
     layerBottom_ |-> layerBottomValue]

\* K keeping the tensor it returns in a member
SoilKStoring(this, x) ==
    LET ret == IF x[1] < this.layerBottom_ THEN this.highK_ ELSE this.lowK_
    IN  [ret |-> ret, this |-> [this EXCEPT !.highK_ = ret]]

\* K counting the bottom of the layer as part of the high-permeable region
SoilKBottomHigh(this, x) ==
    [ret |-> IF x[1] <= this.layerBottom_ THEN this.highK_ ELSE this.lowK_,
     this |-> this]

\* InjectionSoil::K (a non-const member function): the returned tensor and the
\* object after the call
SoilK(this, x) ==
    [ret |-> IF x[1] < this.layerBottom_ THEN this.highK_ ELSE this.lowK_,
     this |-> this]

\* InjectionSoil::porosity (const)
SoilPorosity(this, x) ==
    [ret |-> soilPorosityValue, this |-> this]

----------------------------------------------------------------------------
(* InjectionProblem                                                         *)

\* the number of equations, the indices of the primary variables and the
\* phase state of a position holding water only
m == 2
pWIdx == 0
switchIdx == 1
waterPhase == 1
Equations == 0..(m - 1)

\* the corners of the rectangular grid the problem is set up on, in m
GridLowerLeft == Position(0, 0)
GridUpperRight == Position(60, 40)

\* positions of the grid, on whole metres, and those on its boundary
GridPositions == {Position(x0, x1) : x0 \in {0, 30, 60}, x1 \in {0, 5, 7, 10, 15, 22, 40}}
BoundaryPositions ==
    {x \in GridPositions : \/ x[0] \in {GridLowerLeft[0], GridUpperRight[0]}
                           \/ x[1] \in {GridLowerLeft[1], GridUpperRight[1]}}

\* the default of the constructor's corner arguments
DefaultCorner == Position(0, 0)

\* depths of the bottom of the reservoir handed to the constructor, in m: the
\* default 0, the bottom of the low-permeable layer and the top of the grid
DepthBORValues == {0, 22, 40}

\* InjectionProblem::InjectionProblem. Lengths are in m, except eps_, which
\* is in 1e-8 m, so that 1e-8 * outerUpperRight[0] is the number
\* outerUpperRight[0]; gravity_ is in 1/100 m/s^2
InjectionProblemCtor(outerLowerLeft, outerUpperRight, depthBOR) ==
    [outerLowerLeft_ |-> outerLowerLeft,
     outerUpperRight_ |-> outerUpperRight,
     depthBOR_ |-> depthBOR,
     eps_ |-> outerUpperRight[0],
     height_ |-> outerUpperRight[1] - outerLowerLeft[1],
     width_ |-> outerUpperRight[0] - outerLowerLeft[0],
     gravity_ |-> [i \in Dims |-> IF i = 1 THEN -981 ELSE 0]]

\* x0 < eps for a length x0 in whole m and eps in 1e-8 m: x0 * 10^8 < eps,
\* computed without leaving the 32-bit integers
LessThanEps(x0, eps) == x0 <= (eps - 1) \div 100000000

\* bctype making only the pressure equation a Dirichlet condition
bctypePressureOnly(this, x) ==
    IF LessThanEps(x[0], this.eps_)
    THEN [e \in Equations |-> IF e = pWIdx THEN "dirichlet" ELSE "neumann"]
    ELSE [e \in Equations |-> "neumann"]

\* InjectionProblem::bctype: the type of the boundary condition of each equation
bctype(this, x) ==
    IF LessThanEps(x[0], this.eps_)
    THEN [e \in Equations |-> "dirichlet"]
    ELSE [e \in Equations |-> "neumann"]

\* InjectionProblem::g: the Dirichlet values; the pressure in Pa, the switch
\* variable in 1e-6
InjectionG(this, x) ==
    [e \in Equations |->
        IF e = pWIdx
        THEN 100000 - (1000 * this.gravity_[1] * (this.depthBOR_ - x[1])) \div 100
        ELSE IF e = switchIdx THEN 1 ELSE 0]

\* InjectionProblem::J: the Neumann fluxes, in 1e-6
InjectionJ(this, x) ==
    [e \in Equations |->
        IF e = switchIdx /\ x[1] < 15 /\ x[1] > 5 THEN -1000 ELSE 0]

\* initial starting with two phases at the injection side of the domain
initialTwoPhase(this, x) ==
    [e \in Equations |->
        IF e = pWIdx
        THEN 100000 - (1000 * this.gravity_[1] * (this.depthBOR_ - x[1])) \div 100
        ELSE IF x[0] > 59 /\ x[1] < 10 /\ x[1] > 5 THEN 50000 ELSE 1]

\* InjectionProblem::initial: the initial values, in the units of g
initial(this, x) ==
    [e \in Equations |->
        IF e = pWIdx
        THEN 100000 - (1000 * this.gravity_[1] * (this.depthBOR_ - x[1])) \div 100
        ELSE 1]

\* InjectionProblem::initialPhaseState
initialPhaseState(this, x) == waterPhase

\* InjectionProblem::q: sources and sinks
InjectionQ(this, x) == [e \in Equations |-> 0]

----------------------------------------------------------------------------
(* The program co2injection_immiscible_ni_ecfv                              *)

\* NEW_TYPE_TAG(Co2InjectionImmiscibleNiEcfvProblem, INHERITS_FROM(...)) and
\* the properties the file sets on it
Co2InjectionImmiscibleNiEcfvProblem ==
    [parents |-> <<"ImmiscibleModel", "Co2InjectionBaseProblem">>,
     props |-> [SpatialDiscretizationSplice |-> "EcfvDiscretization",
                EnableEnergy |-> "true",
                LocalLinearizerSplice |-> "AutoDiffLocalLinearizer"]]

\* the value of a property of a type tag: the one set on the tag itself, else
\* the one it inherits, which this file does not determine
GetProp(typeTag, name) ==
    IF name \in DOMAIN typeTag.props THEN typeTag.props[name] ELSE "inherited"

\* values Ewoms::start can return to main
StartReturnValues == 0..127

\* the process before main is entered
ProgramStart == [pc |-> "main", typeTag |-> Co2InjectionImmiscibleNiEcfvProblem,
                 discretization |-> "none", enableEnergy |-> "none",
                 startRet |-> -1, exitStatus |-> -1]

\* main calls Ewoms::start<EcfvProblemTypeTag>(argc, argv), which runs the
\* simulation with the properties of the type tag and returns ret
callStart(p, ret) ==
    [p EXCEPT !.pc = "start returned",
              !.discretization = GetProp(p.typeTag, "SpatialDiscretizationSplice"),
              !.enableEnergy = GetProp(p.typeTag, "EnableEnergy"),
              !.startRet = ret]

\* main returns what Ewoms::start returned
returnFromMain(p) ==
    [p EXCEPT !.pc = "exited", !.exitStatus = p.startRet]

----------------------------------------------------------------------------
(* MultiPhaseBaseProblem                                                    *)

\* GridView::dimensionworld
dimWorld == 2
WorldDims == 0..(dimWorld - 1)

\* the gravitational acceleration set by init_, in 1/100 m/s^2
gravityValue == -981

\* the methods a problem (the Implementation) can overload
MethodNames ==
    {"intrinsicPermeability", "porosity", "heatCapacitySolid", "heatConductionParams",
     "tortuosity", "dispersivity", "temperature", "temperatureCtx",
     "materialLawParams", "gravity", "gravityCtx"}

\* the sets of overloaded methods of the problems considered
OverloadChoices ==
    {{}, MethodNames, {"intrinsicPermeability"}, {"temperature"}, {"temperatureCtx"},
     {"gravity"}, {"porosity", "tortuosity", "heatCapacitySolid"},
     MethodNames \ {"intrinsicPermeability", "temperature"}}

\* the finite volumes of a stencil
FiniteVolumes == {0, 1, 2}

\* what the overloads of an Implementation return: its permeability tensors
\* (with off-diagonal and zero entries), its gravity, a scalar otherwise
ImplIntrinsicPermeability(spaceIdx) ==
    [i \in WorldDims |-> [j \in WorldDims |->
        CASE spaceIdx = 0 -> IF i = j THEN 6 ELSE 2
          [] spaceIdx = 1 -> IF i = j THEN 2 ELSE 0
          [] OTHER        -> IF i = j THEN 2 ELSE 6]]
ImplGravity == [i \in WorldDims |-> IF i = 0 THEN -162 ELSE 0]
ImplValue(name, spaceIdx) ==
    CASE name = "intrinsicPermeability" -> ImplIntrinsicPermeability(spaceIdx)
      [] name = "gravity"               -> ImplGravity
      [] name = "gravityCtx"            -> ImplGravity
      [] OTHER                          -> 7 + spaceIdx

Returns(v) == [outcome |-> "value", value |-> v]
\* OPM_THROW(std::logic_error, what)
Throws(what) == [outcome |-> "logic_error", what |-> what]

\* init_ setting the first instead of the last coordinate
init_FirstCoordinate(enableGrav) ==
    LET zero == [i \in WorldDims |-> 0]
    IN  IF enableGrav THEN [zero EXCEPT ![0] = gravityValue] ELSE zero

\* MultiPhaseBaseProblem::init_
init_(enableGrav) ==
    LET zero == [i \in WorldDims |-> 0]
    IN  IF enableGrav THEN [zero EXCEPT ![dimWorld - 1] = gravityValue] ELSE zero

\* the bodies of the default accessors of MultiPhaseBaseProblem
base_intrinsicPermeability == Throws("Not implemented: Problem::intrinsicPermeability()")
base_porosity == Throws("Not implemented: Problem::porosity()")
base_heatCapacitySolid == Throws("Not implemented: Problem::heatCapacitySolid()")
base_heatConductionParams == Throws("Not implemented: Problem::heatConductionParams()")
base_tortuosity == Throws("Not implemented: Problem::tortuosity()")
base_dispersivity == Throws("Not implemented: Problem::dispersivity()")
\* temperature() returning a default instead of throwing
base_temperatureDefault == Returns(293)
base_temperature ==
    Throws("Not implemented:temperature() method not implemented by the actual problem")
\* the static dummy parameter object
base_materialLawParams == Returns(0)
base_gravity(g) == Returns(g)

\* asImp_().name(...): the overload of the Implementation if there is one,
\* else the method of MultiPhaseBaseProblem; temperature(context, ...) and
\* gravity(context, ...) of the base class call asImp_() again
RECURSIVE asImp_(_, _, _, _)
asImp_(ovl, g, name, spaceIdx) ==
    IF name \in ovl THEN Returns(ImplValue(name, spaceIdx))
    ELSE CASE name = "intrinsicPermeability" -> base_intrinsicPermeability
           [] name = "porosity"              -> base_porosity
           [] name = "heatCapacitySolid"     -> base_heatCapacitySolid
           [] name = "heatConductionParams"  -> base_heatConductionParams
           [] name = "tortuosity"            -> base_tortuosity
           [] name = "dispersivity"          -> base_dispersivity
           [] name = "temperature"           -> base_temperature
           [] name = "temperatureCtx"        -> asImp_(ovl, g, "temperature", spaceIdx)
           [] name = "materialLawParams"     -> base_materialLawParams
           [] name = "gravity"               -> base_gravity(g)
           [] name = "gravityCtx"            -> asImp_(ovl, g, "gravity", spaceIdx)

\* Opm::harmonicMean
harmonicMean(x, y) == IF x * y <= 0 THEN 0 ELSE (2 * x * y) \div (x + y)

\* the harmonic mean taken on the main diagonal only
intersectionIntrinsicPermeabilityDiagonal(ovl, g, res, interiorIndex, exteriorIndex) ==
    LET K1 == asImp_(ovl, g, "intrinsicPermeability", interiorIndex)
        K2 == asImp_(ovl, g, "intrinsicPermeability", exteriorIndex)
    IN  IF K1.outcome = "logic_error" THEN [outcome |-> "logic_error", result |-> res]
        ELSE IF K2.outcome = "logic_error" THEN [outcome |-> "logic_error", result |-> res]
        ELSE [outcome |-> "value",
              result |-> [i \in WorldDims |-> [j \in WorldDims |->
                             IF i = j THEN harmonicMean(K1.value[i][j], K2.value[i][j])
                             ELSE 0]]]

\* MultiPhaseBaseProblem::intersectionIntrinsicPermeability for the face
\* between the finite volumes interiorIndex and exteriorIndex: the outcome
\* and the DimMatrix `result` after the call
intersectionIntrinsicPermeability(ovl, g, res, interiorIndex, exteriorIndex) ==
    LET K1 == asImp_(ovl, g, "intrinsicPermeability", interiorIndex)
        K2 == asImp_(ovl, g, "intrinsicPermeability", exteriorIndex)
    IN  IF K1.outcome = "logic_error" THEN [outcome |-> "logic_error", result |-> res]
        ELSE IF K2.outcome = "logic_error" THEN [outcome |-> "logic_error", result |-> res]
        ELSE [outcome |-> "value",
              result |-> [i \in WorldDims |-> [j \in WorldDims |->
                             harmonicMean(K1.value[i][j], K2.value[i][j])]]]

\* markForGridAdaptation: the grid, the saturations and the marking loop

Elements == 0..(NumElements - 1)
\* the processes of the parallel run and the interior elements of each
Ranks == {0, 1}
InteriorElements(rank) == {e \in Elements : e % 2 = rank}
\* Dune grid levels
Levels == {0, 1, 2}

\* the saturation of phase 0 at the two degrees of freedom of an element, in
\* percent; the other phases share the rest
SaturationProfiles == {<<50, 50>>, <<50, 55>>, <<10, 90>>, <<90, 100>>, <<0, 10>>}
SatDofs == {1, 2}
saturation(profile, dofIdx, phaseIdx) ==
    IF phaseIdx = 0 THEN profile[dofIdx] ELSE (100 - profile[dofIdx]) \div (numPhases - 1)

Min(S) == CHOOSE x \in S : \A y \in S : x <= y
Max(S) == CHOOSE x \in S : \A y \in S : x >= y

\* indicator = (maxSat - minSat)/(max(0.01, maxSat + minSat)/2) compared with
\* 0.2 and 0.025, on saturations in percent
IndicatorAbove02(profile, phaseIdx) ==
    LET S == {saturation(profile, d, phaseIdx) : d \in SatDofs}
    IN  10 * (Max(S) - Min(S)) > Max({1, Max(S) + Min(S)})
IndicatorBelow0025(profile, phaseIdx) ==
    LET S == {saturation(profile, d, phaseIdx) : d \in SatDofs}
    IN  80 * (Max(S) - Min(S)) < Max({1, Max(S) + Min(S)})

\* the body of the loop over the phases for one element: the mark of the
\* element and the counter after the phases phaseIdx .. numPhases-1
RECURSIVE markElement(_, _, _, _, _)
markElement(profile, lvl, phaseIdx, mark, numMarked) ==
    IF phaseIdx >= numPhases THEN [mark |-> mark, numMarked |-> numMarked]
    ELSE IF IndicatorAbove02(profile, phaseIdx) /\ lvl < 2
         THEN markElement(profile, lvl, phaseIdx + 1, 1, numMarked + 1)
         ELSE IF IndicatorBelow0025(profile, phaseIdx)
              THEN markElement(profile, lvl, phaseIdx + 1, -1, numMarked + 1)
              ELSE markElement(profile, lvl, phaseIdx + 1, 0, numMarked)

RECURSIVE SumOver(_, _)
SumOver(f, S) ==
    IF S = {} THEN 0 ELSE LET x == CHOOSE y \in S : TRUE IN f[x] + SumOver(f, S \ {x})

\* MultiPhaseBaseProblem::markForGridAdaptation: every process marks its
\* interior elements, then the counters are summed over the processes
markForGridAdaptation(lvls, oldMarks, sat) ==
    LET perElement == [e \in Elements |-> markElement(sat[e], lvls[e], 0, oldMarks[e], 0)]
        local == [r \in Ranks |->
                     SumOver([e \in Elements |-> perElement[e].numMarked], InteriorElements(r))]
    IN  [marks |-> [e \in Elements |-> perElement[e].mark],
         numMarked |-> SumOver(local, Ranks)]

----------------------------------------------------------------------------
(* VtkBlackOilModule                                                        *)

ParamNames ==
    {"VtkWriteGasDissolutionFactor", "VtkWriteSaturatedOilGasDissolutionFactor",
     "VtkWriteGasFormationVolumeFactor", "VtkWriteOilFormationVolumeFactor",
     "VtkWriteOilSaturationPressure"}

BufferNames ==
    {"gasDissolutionFactor_", "saturatedOilGasDissolutionFactor_",
     "gasFormationVolumeFactor_", "saturatedOilFormationVolumeFactor_",
     "oilSaturationPressure_"}

\* SET_BOOL_PROP(VtkBlackOil, VtkWrite..., false)
DefaultParams == [n \in ParamNames |-> FALSE]

\* a one-dimensional grid: element e has the vertices e and e+1, which are
\* its primary degrees of freedom; buffers are indexed from 1 here, so the
\* global index g of the code is position g + 1
GridDofs == 0..NumElements
numPrimaryDof == 2
globalSpaceIndex(elem, dofIdx) == elem + dofIdx

\* the fluid states the intensive quantities of a degree of freedom can hold
FluidStateIds == {1, 2}

\* the quantity written to a buffer for a fluid state (R_s, R_s,sat, B_g,
\* B_o, saturation pressure): one value per buffer and fluid state
Quantity(buffer, fs) ==
    CASE buffer = "gasDissolutionFactor_"              -> 10 + fs
      [] buffer = "saturatedOilGasDissolutionFactor_"  -> 20 + fs
      [] buffer = "gasFormationVolumeFactor_"          -> 30 + fs
      [] buffer = "saturatedOilFormationVolumeFactor_" -> 40 + fs
      [] buffer = "oilSaturationPressure_"             -> 50 + fs

\* the output flags
gasDissolutionFactorOutput_(par) == par["VtkWriteGasDissolutionFactor"]
saturatedOilGasDissolutionFactorOutput_(par) == par["VtkWriteSaturatedOilGasDissolutionFactor"]
gasFormationVolumeFactorOutput_(par) == par["VtkWriteGasFormationVolumeFactor"]
\* the flag of B_o read from the parameter of B_g
saturatedOilFormationVolumeFactorOutputOfGas_(par) == par["VtkWriteGasFormationVolumeFactor"]
saturatedOilFormationVolumeFactorOutput_(par) == par["VtkWriteOilFormationVolumeFactor"]
oilSaturationPressureOutput_(par) == par["VtkWriteOilSaturationPressure"]

\* BaseOutputModule::resizeScalarBuffer_: one entry per degree of freedom of
\* the grid, set to 0
resizeScalarBuffer_(buffer) == [i \in 1..Cardinality(GridDofs) |-> 0]

\* VtkBlackOilModule::allocBuffers
allocBuffers(par, bufs) ==
    LET b1 == IF gasDissolutionFactorOutput_(par)
              THEN [bufs EXCEPT !["gasDissolutionFactor_"] = resizeScalarBuffer_(@)]
              ELSE bufs
        b2 == IF saturatedOilGasDissolutionFactorOutput_(par)
              THEN [b1 EXCEPT !["saturatedOilGasDissolutionFactor_"] = resizeScalarBuffer_(@)]
              ELSE b1
        b3 == IF gasFormationVolumeFactorOutput_(par)
              THEN [b2 EXCEPT !["gasFormationVolumeFactor_"] = resizeScalarBuffer_(@)]
              ELSE b2
        b4 == IF saturatedOilFormationVolumeFactorOutput_(par)
              THEN [b3 EXCEPT !["saturatedOilFormationVolumeFactor_"] = resizeScalarBuffer_(@)]
              ELSE b3
        b5 == IF oilSaturationPressureOutput_(par)
              THEN [b4 EXCEPT !["oilSaturationPressure_"] = resizeScalarBuffer_(@)]
              ELSE b4
    IN  b5

\* buffer[globalDofIdx] = value: outside the buffer the behaviour is undefined
WriteEntry(st, name, globalDofIdx, value) ==
    IF st.state = "undefined" THEN st
    ELSE IF globalDofIdx + 1 > Len(st.bufs[name]) THEN [st EXCEPT !.state = "undefined"]
    ELSE [st EXCEPT !.bufs[name][globalDofIdx + 1] = value]

\* the loop body indexing the buffers by the local index of the degree of
\* freedom instead of its global index
processDofLocalIndex(par, st, elem, dofIdx, fs) ==
    LET globalDofIdx == dofIdx
        s1 == IF gasDissolutionFactorOutput_(par)
              THEN WriteEntry(st, "gasDissolutionFactor_", globalDofIdx,
                              Quantity("gasDissolutionFactor_", fs))
              ELSE st
        s2 == IF saturatedOilGasDissolutionFactorOutput_(par)
              THEN WriteEntry(s1, "saturatedOilGasDissolutionFactor_", globalDofIdx,
                              Quantity("saturatedOilGasDissolutionFactor_", fs))
              ELSE s1
        s3 == IF gasFormationVolumeFactorOutput_(par)
              THEN WriteEntry(s2, "gasFormationVolumeFactor_", globalDofIdx,
                              Quantity("gasFormationVolumeFactor_", fs))
              ELSE s2
        s4 == IF saturatedOilFormationVolumeFactorOutput_(par)
              THEN WriteEntry(s3, "saturatedOilFormationVolumeFactor_", globalDofIdx,
                              Quantity("saturatedOilFormationVolumeFactor_", fs))
              ELSE s3
        s5 == IF oilSaturationPressureOutput_(par)
              THEN WriteEntry(s4, "oilSaturationPressure_", globalDofIdx,
                              Quantity("oilSaturationPressure_", fs))
              ELSE s4
    IN  s5

\* the body of the loop of processElement for one degree of freedom
processDof(par, st, elem, dofIdx, fs) ==
    LET globalDofIdx == globalSpaceIndex(elem, dofIdx)
        s1 == IF gasDissolutionFactorOutput_(par)
              THEN WriteEntry(st, "gasDissolutionFactor_", globalDofIdx,
                              Quantity("gasDissolutionFactor_", fs))
              ELSE st
        s2 == IF saturatedOilGasDissolutionFactorOutput_(par)
              THEN WriteEntry(s1, "saturatedOilGasDissolutionFactor_", globalDofIdx,
                              Quantity("saturatedOilGasDissolutionFactor_", fs))
              ELSE s1
        s3 == IF gasFormationVolumeFactorOutput_(par)
              THEN WriteEntry(s2, "gasFormationVolumeFactor_", globalDofIdx,
                              Quantity("gasFormationVolumeFactor_", fs))
              ELSE s2
        s4 == IF saturatedOilFormationVolumeFactorOutput_(par)
              THEN WriteEntry(s3, "saturatedOilFormationVolumeFactor_", globalDofIdx,
                              Quantity("saturatedOilFormationVolumeFactor_", fs))
              ELSE s3
        s5 == IF oilSaturationPressureOutput_(par)
              THEN WriteEntry(s4, "oilSaturationPressure_", globalDofIdx,
                              Quantity("oilSaturationPressure_", fs))
              ELSE s4
    IN  s5

\* VtkBlackOilModule::processElement: the loop over the primary degrees of
\* freedom dofIdx .. numPrimaryDof-1 of the element; fluidStates[dofIdx + 1] is
\* the fluid state of the intensive quantities of dofIdx
RECURSIVE processElementFrom(_, _, _, _, _)
processElementFrom(par, st, elem, fluidStates, dofIdx) ==
    IF dofIdx >= numPrimaryDof THEN st
    ELSE processElementFrom(par, processDof(par, st, elem, dofIdx, fluidStates[dofIdx + 1]),
                            elem, fluidStates, dofIdx + 1)

processElement(par, bufs, elem, fluidStates) ==
    processElementFrom(par, [state |-> "ok", bufs |-> bufs], elem, fluidStates, 0)

\* commitBuffers adding every buffer, whatever its flag
commitBuffersAll(par, bufs, writerType) ==
    IF writerType # "VtkMultiWriter" THEN <<>>
    ELSE <<[name |-> "R_s", buffer |-> "gasDissolutionFactor_"],
           [name |-> "R_s,sat", buffer |-> "saturatedOilGasDissolutionFactor_"],
           [name |-> "B_g", buffer |-> "gasFormationVolumeFactor_"],
           [name |-> "B_o", buffer |-> "saturatedOilFormationVolumeFactor_"],
           [name |-> "pressure_sat,o", buffer |-> "oilSaturationPressure_"]>>

\* VtkBlackOilModule::commitBuffers: the commitScalarBuffer_ calls it makes on
\* the writer, in order
commitBuffers(par, bufs, writerType) ==
    IF writerType # "VtkMultiWriter" THEN <<>>
    ELSE (IF gasDissolutionFactorOutput_(par)
          THEN <<[name |-> "R_s", buffer |-> "gasDissolutionFactor_"]>> ELSE <<>>)
      \o (IF saturatedOilGasDissolutionFactorOutput_(par)
          THEN <<[name |-> "R_s,sat", buffer |-> "saturatedOilGasDissolutionFactor_"]>>
          ELSE <<>>)
      \o (IF gasFormationVolumeFactorOutput_(par)
          THEN <<[name |-> "B_g", buffer |-> "gasFormationVolumeFactor_"]>> ELSE <<>>)
      \o (IF saturatedOilFormationVolumeFactorOutput_(par)
          THEN <<[name |-> "B_o", buffer |-> "saturatedOilFormationVolumeFactor_"]>>
          ELSE <<>>)
      \o (IF oilSaturationPressureOutput_(par)
          THEN <<[name |-> "pressure_sat,o", buffer |-> "oilSaturationPressure_"]>>
          ELSE <<>>)

----------------------------------------------------------------------------
(* Stokes2cniModel::addOutputVtkFields                                      *)

\* the vertices of the grid and the values the solution can take at a vertex
Vertices == 0..NumElements
SolutionValues == {1, 2}

\* the pressure 1e5 that delP is taken against
referencePressure == 100000

\* the quantities of the volume variables updated from sol[globalIdx]
VolVarsQuantity(field, solValue) ==
    CASE field = "pN"       -> referencePressure + 10 * solValue
      [] field = "delP"     -> (referencePressure + 10 * solValue) - referencePressure
      [] field = "Xw"       -> solValue
      [] field = "T"        -> 280 + solValue
      [] field = "rho"      -> 1000 + solValue
      [] field = "mu"       -> 2 * solValue
      [] field = "h"        -> 3 * solValue
      [] field = "velocity" -> 4 * solValue

\* the buffers in the order of their allocateManagedBuffer calls
VertexFields == <<"pN", "delP", "Xw", "T", "rho", "mu", "h", "velocity">>

\* the attachVertexData calls in their order: the field and the name it gets
AttachCalls ==
    <<[field |-> "pN", name |-> "pg"], [field |-> "delP", name |-> "delP"],
      [field |-> "Xw", name |-> "X_gH2O"], [field |-> "T", name |-> "temperature"],
      [field |-> "rho", name |-> "rhoG"], [field |-> "mu", name |-> "mu"],
      [field |-> "h", name |-> "h"], [field |-> "velocity", name |-> "v"]>>

\* Stokes2cniModel::addOutputVtkFields: the writer after the call. Buffer k
\* of the writer is managed[k]; attached holds the attachVertexData calls
addOutputVtkFields(w, sol, rank) ==
    LET base == Len(w.managed)
        vertexBuffers ==
            [k \in 1..Len(VertexFields) |->
                [field |-> VertexFields[k],
                 data |-> [v \in Vertices |-> VolVarsQuantity(VertexFields[k], sol[v])]]]
        rankBuffer == [field |-> "rank", data |-> [e \in 0..(NumElements - 1) |-> rank]]
        Index(field) == base + (CHOOSE k \in 1..Len(VertexFields) : VertexFields[k] = field)
    IN  [managed |-> w.managed \o vertexBuffers \o <<rankBuffer>>,
         attached |-> w.attached \o
                         [a \in 1..Len(AttachCalls) |->
                             [buffer |-> Index(AttachCalls[a].field),
                              name |-> AttachCalls[a].name]]]

----------------------------------------------------------------------------
(* Initial states: each part after construction                             *)

InitFlash ==
    /\ vv \in [Inst -> {Uninitialized(g) : g \in Garbage}]
    /\ problem = ProblemData
    /\ call = NoCall
    /\ soil = InjectionSoilCtor
    /\ soilRet = NoCall

\* MultiPhaseBaseProblem::MultiPhaseBaseProblem calls init_
InitProblem ==
    /\ enableGravity \in BOOLEAN
    /\ overloaded \in OverloadChoices
    /\ gravity_ = init_(enableGravity)
    /\ result \in {[i \in WorldDims |-> [j \in WorldDims |-> g]] : g \in Garbage}
    /\ probRet = NoCall

InitGrid ==
    /\ level \in [Elements -> Levels]
    /\ marks = [e \in Elements |-> 0]
    /\ markRet = NoCall

\* the parameters are read from the command line; the buffers start empty
InitVtk ==
    /\ params \in [ParamNames -> BOOLEAN]
    /\ buffers = [b \in BufferNames |-> <<>>]
    /\ allocated = FALSE
    /\ vtkState = "ok"
    /\ vtkCall = NoCall
    /\ processed = {}

InitStokes ==
    /\ writer = [managed |-> <<>>, attached |-> <<>>]
    /\ stokesCall = NoCall

\* FlashTolerance is read from the parameters, baseEpsilon belongs to the
\* local Jacobian of the model; both in the same unit
InitSteps ==
    /\ flashTolerance \in FlashToleranceValues
    /\ baseEpsilon \in BaseEpsilonValues
    /\ steps = <<>>
    /\ logging = TRUE

\* the problem is constructed on the grid with its corners and the depth of
\* the bottom of the reservoir, or with the defaults of these arguments
InitInjection ==
    /\ \E outerUpperRight \in {DefaultCorner, GridUpperRight},
          depthBOR \in DepthBORValues :
          inj = InjectionProblemCtor(GridLowerLeft, outerUpperRight, depthBOR)
    /\ injRet = NoCall

\* one state of each part, for the specifications of the other parts
IdleSteps ==
    /\ flashTolerance = -1
    /\ baseEpsilon = 18
    /\ steps = <<>>
    /\ logging = FALSE
IdleInjection ==
    /\ inj = InjectionProblemCtor(DefaultCorner, DefaultCorner, 0)
    /\ injRet = NoCall
IdleProgram == prog = ProgramStart
IdleVtk == InitVtk /\ params = DefaultParams
IdleFlash == InitFlash /\ vv = [v \in Inst |-> Uninitialized(-1)]
IdleProblem ==
    InitProblem /\ enableGravity /\ overloaded = {}
                /\ result = [i \in WorldDims |-> [j \in WorldDims |-> -1]]
IdleGrid == InitGrid /\ level = [e \in Elements |-> 0]

\* the volume variables' surroundings, the injection problem and the program,
\* pinned for the specifications of the other parts
IdleOthers == IdleSteps /\ IdleInjection /\ IdleProgram

----------------------------------------------------------------------------
(* Specification of the volume variables and the soil data they rest on     *)

Init == InitFlash /\ IdleProblem /\ IdleGrid /\ IdleVtk /\ InitStokes /\ IdleOthers

\* one call of FlashVolumeVariables::update; a hint points to another instance
\* whose volume variables have been computed already
Update(inst, dofIdx, priVars, h) ==
    /\ h # NoHint => (h # inst /\ Computed(vv[h]))
    /\ LET r == update(vv, problem, inst, dofIdx, priVars, h)
       IN  /\ vv' = r.vv
           /\ problem' = r.problem
    /\ call' = [op |-> "update", inst |-> inst, dofIdx |-> dofIdx, priVars |-> priVars,
                hint |-> h, again |-> Computed(vv[inst])]
    /\ steps' = IF logging
                THEN updateCalls(vv[inst], problem, dofIdx, priVars,
                                 IF h = NoHint THEN NullHint ELSE HintTo(vv, h),
                                 flashTolerance, baseEpsilon)
                ELSE steps
    /\ UNCHANGED <<soil, soilRet, flashTolerance, baseEpsilon, logging,
                   problemVars, gridVars, vtkVars, stokesVars, injVars, progVars>>

\* one call of InjectionSoil::K
CallK(x) ==
    /\ LET r == SoilK(soil, x)
       IN  /\ soil' = r.this
           /\ soilRet' = [op |-> "K", x |-> x, ret |-> r.ret]
    /\ UNCHANGED <<vv, problem, call, problemVars, gridVars, vtkVars, stokesVars, stepVars, injVars, progVars>>

\* one call of InjectionSoil::porosity
CallPorosity(x) ==
    /\ LET r == SoilPorosity(soil, x)
       IN  /\ soil' = r.this
           /\ soilRet' = [op |-> "porosity", x |-> x, ret |-> r.ret]
    /\ UNCHANGED <<vv, problem, call, problemVars, gridVars, vtkVars, stokesVars, stepVars, injVars, progVars>>

Next ==
    \E inst \in Inst, dofIdx \in Dofs, priVars \in PriVarsSet, h \in Inst \cup {NoHint} :
        Update(inst, dofIdx, priVars, h)

Spec == Init /\ [][Next]_vars

\* the soil data and its readers: the volume variables of one control volume
\* computed from the problem's data, and the soil functions called directly
NextSoilData ==
    \/ \E dofIdx \in Dofs, priVars \in PriVarsSet : Update(1, dofIdx, priVars, NoHint)
    \/ \E x \in SoilPositions : CallK(x)
    \/ \E x \in SoilPositions : CallPorosity(x)

SpecSoilData == Init /\ [][NextSoilData]_vars

\* the steps of update: one instance updated with and without a hint, under
\* every setting of the tolerance; the other instance serves as the hint
InitFlashSteps ==
    InitFlash /\ InitSteps /\ IdleProblem /\ IdleGrid /\ IdleVtk /\ InitStokes
              /\ IdleInjection /\ IdleProgram

NextFlashSteps ==
    \/ \E dofIdx \in Dofs, priVars \in PriVarsSet : Update(1, dofIdx, priVars, NoHint)
    \/ \E dofIdx \in Dofs, priVars \in PriVarsSet : Update(1, dofIdx, priVars, 2)
    \/ \E dofIdx \in Dofs, priVars \in PriVarsSet : Update(2, dofIdx, priVars, NoHint)

SpecFlashSteps == InitFlashSteps /\ [][NextFlashSteps]_vars

----------------------------------------------------------------------------
(* Specification of InjectionProblem                                         *)

InitInjectionProblem ==
    IdleFlash /\ IdleProblem /\ IdleGrid /\ IdleVtk /\ InitStokes
              /\ IdleSteps /\ InitInjection /\ IdleProgram

\* a call of one of the const member functions of the problem at a position
CallInjection(name, x, ret) ==
    /\ injRet' = [op |-> name, x |-> x, ret |-> ret]
    /\ UNCHANGED <<inj, flashVars, problemVars, gridVars, vtkVars, stokesVars,
                   stepVars, progVars>>

NextInjectionProblem ==
    \/ \E x \in BoundaryPositions : CallInjection("bctype", x, bctype(inj, x))
    \/ \E x \in BoundaryPositions : CallInjection("g", x, InjectionG(inj, x))
    \/ \E x \in BoundaryPositions : CallInjection("J", x, InjectionJ(inj, x))
    \/ \E x \in GridPositions : CallInjection("initial", x, initial(inj, x))
    \/ \E x \in GridPositions :
          CallInjection("initialPhaseState", x, [state |-> initialPhaseState(inj, x)])
    \/ \E x \in GridPositions : CallInjection("q", x, InjectionQ(inj, x))

SpecInjectionProblem == InitInjectionProblem /\ [][NextInjectionProblem]_vars

----------------------------------------------------------------------------
(* Specification of the program co2injection_immiscible_ni_ecfv              *)

InitProgram ==
    IdleFlash /\ IdleProblem /\ IdleGrid /\ IdleVtk /\ InitStokes
              /\ IdleSteps /\ IdleInjection /\ prog = ProgramStart

CallStart(ret) ==
    /\ prog.pc = "main"
    /\ prog' = callStart(prog, ret)
    /\ UNCHANGED <<flashVars, problemVars, gridVars, vtkVars, stokesVars, stepVars, injVars>>

ReturnFromMain ==
    /\ prog.pc = "start returned"
    /\ prog' = returnFromMain(prog)
    /\ UNCHANGED <<flashVars, problemVars, gridVars, vtkVars, stokesVars, stepVars, injVars>>

NextProgram ==
    \/ \E ret \in StartReturnValues : CallStart(ret)
    \/ ReturnFromMain

SpecProgram == InitProgram /\ [][NextProgram]_vars

----------------------------------------------------------------------------
(* Specification of MultiPhaseBaseProblem                                    *)

InitBaseProblem == IdleFlash /\ InitProblem /\ IdleGrid /\ IdleVtk /\ InitStokes /\ IdleOthers

\* a call of one of the accessors on the problem, through asImp_() or directly
CallAccessor(name, spaceIdx) ==
    /\ probRet' = [op |-> name, spaceIdx |-> spaceIdx,
                   ret |-> asImp_(overloaded, gravity_, name, spaceIdx)]
    /\ UNCHANGED <<enableGravity, overloaded, gravity_, result, flashVars, gridVars, vtkVars, stokesVars, stepVars, injVars, progVars>>

\* a call of MultiPhaseBaseProblem::gravity() itself
CallGravity ==
    /\ probRet' = [op |-> "MultiPhaseBaseProblem::gravity", spaceIdx |-> 0,
                   ret |-> base_gravity(gravity_)]
    /\ UNCHANGED <<enableGravity, overloaded, gravity_, result, flashVars, gridVars, vtkVars, stokesVars, stepVars, injVars, progVars>>

\* a call of the default intersectionIntrinsicPermeability
CallIntersectionIntrinsicPermeability(interiorIndex, exteriorIndex) ==
    /\ LET r == intersectionIntrinsicPermeability(overloaded, gravity_, result,
                                                  interiorIndex, exteriorIndex)
       IN  /\ result' = r.result
           /\ probRet' = [op |-> "intersectionIntrinsicPermeability",
                          interiorIndex |-> interiorIndex, exteriorIndex |-> exteriorIndex,
                          before |-> result,
                          ret |-> [outcome |-> r.outcome]]
    /\ UNCHANGED <<enableGravity, overloaded, gravity_, flashVars, gridVars, vtkVars, stokesVars, stepVars, injVars, progVars>>

NextBaseProblem ==
    \/ \E name \in MethodNames, spaceIdx \in FiniteVolumes : CallAccessor(name, spaceIdx)
    \/ CallGravity
    \/ \E i \in FiniteVolumes, e \in FiniteVolumes :
          CallIntersectionIntrinsicPermeability(i, e)

SpecBaseProblem == InitBaseProblem /\ [][NextBaseProblem]_vars

----------------------------------------------------------------------------
(* Specification of the grid adaptation marking                              *)

InitGridAdaptation == IdleFlash /\ IdleProblem /\ InitGrid /\ IdleVtk /\ InitStokes /\ IdleOthers

\* one call of markForGridAdaptation, on the saturations of the current solution
MarkForGridAdaptation(sat) ==
    /\ LET r == markForGridAdaptation(level, marks, sat)
       IN  /\ marks' = r.marks
           /\ markRet' = [op |-> "markForGridAdaptation", sat |-> sat,
                          numMarked |-> r.numMarked]
    /\ UNCHANGED <<level, flashVars, problemVars, vtkVars, stokesVars, stepVars, injVars, progVars>>

NextGridAdaptation ==
    \E sat \in [Elements -> SaturationProfiles] : MarkForGridAdaptation(sat)

SpecGridAdaptation == InitGridAdaptation /\ [][NextGridAdaptation]_vars

----------------------------------------------------------------------------
(* Specification of VtkBlackOilModule                                        *)

InitVtkModule == IdleFlash /\ IdleProblem /\ IdleGrid /\ InitVtk /\ InitStokes /\ IdleOthers

AllocBuffers ==
    /\ vtkState = "ok"
    /\ buffers' = allocBuffers(params, buffers)
    /\ allocated' = TRUE
    /\ vtkCall' = [op |-> "allocBuffers"]
    /\ processed' = {}
    /\ UNCHANGED <<params, vtkState, flashVars, problemVars, gridVars, stokesVars, stepVars, injVars, progVars>>

ProcessElement(elem, fluidStates) ==
    /\ vtkState = "ok"
    /\ LET r == processElement(params, buffers, elem, fluidStates)
       IN  /\ buffers' = r.bufs
           /\ vtkState' = r.state
    /\ vtkCall' = [op |-> "processElement", elem |-> elem, fluidStates |-> fluidStates]
    /\ processed' = processed \cup {elem}
    /\ UNCHANGED <<params, allocated, flashVars, problemVars, gridVars, stokesVars, stepVars, injVars, progVars>>

CommitBuffers(writerType) ==
    /\ vtkState = "ok"
    /\ vtkCall' = [op |-> "commitBuffers", writerType |-> writerType,
                   committed |-> commitBuffers(params, buffers, writerType)]
    /\ UNCHANGED <<params, buffers, allocated, vtkState, processed,
                   flashVars, problemVars, gridVars, stokesVars, stepVars, injVars, progVars>>

NextVtkModule ==
    \/ AllocBuffers
    \/ \E elem \in 0..(NumElements - 1), fluidStates \in [1..numPrimaryDof -> FluidStateIds] :
          ProcessElement(elem, fluidStates)
    \/ \E writerType \in {"VtkMultiWriter", "other"} : CommitBuffers(writerType)

SpecVtkModule == InitVtkModule /\ [][NextVtkModule]_vars

----------------------------------------------------------------------------
(* Specification of the Stokes2cni output                                    *)

AddOutputVtkFields(sol, rank) ==
    /\ Len(writer.managed) < MaxOutputCalls * (Len(VertexFields) + 1)
    /\ writer' = addOutputVtkFields(writer, sol, rank)
    /\ stokesCall' = [op |-> "addOutputVtkFields", first |-> Len(writer.managed) + 1]
    /\ UNCHANGED <<flashVars, problemVars, gridVars, vtkVars, stepVars, injVars, progVars>>

NextStokes ==
    \E sol \in [Vertices -> SolutionValues], rank \in Ranks : AddOutputVtkFields(sol, rank)

InitStokesModel == IdleFlash /\ IdleProblem /\ IdleGrid /\ IdleVtk /\ InitStokes /\ IdleOthers

SpecStokes == InitStokesModel /\ [][NextStokes]_vars

----------------------------------------------------------------------------
(* Claims about FlashVolumeVariables and the soil data                      *)

\* what update computes from the arguments of `call` when it starts from a
\* freshly constructed instance holding the garbage g
FromScratch(g) ==
    updateThis(Uninitialized(g), ProblemData, call.dofIdx, call.priVars,
               IF call.hint = NoHint THEN NullHint ELSE HintTo(vv, call.hint))

\* C1: after any sequence of update calls, fluidState(), porosity(),
\* intrinsicPermeability() and relativePermeability(phase) of the updated
\* instance are the values the most recent update computes from its primary
\* variables, problem data and hint: they equal what the same call yields on
\* a freshly constructed instance, so nothing of an earlier update survives
C1_RecomputedByEachUpdate ==
    call.op = "update" =>
        \A g \in Garbage :
            LET fresh == FromScratch(g)
                this == vv[call.inst]
            IN  /\ this.fluidState = fresh.fluidState
                /\ this.porosity = fresh.porosity
                /\ this.intrinsicPerm = fresh.intrinsicPerm
                /\ \A p \in Phases :
                      this.relativePermeability[p] = fresh.relativePermeability[p]

\* an instance that had been computed before is updated again, with a hint
\* whose fluid state differs from the one the update produces
C1_Witness ==
    /\ call.op = "update"
    /\ call.again
    /\ call.hint # NoHint
    /\ vv[call.inst].fluidState # vv[call.hint].fluidState

\* C2: an update never changes the fluid state of another instance; with a
\* hint, the hint's fluid state is copied and left unchanged
C2_FluidStateOwned ==
    [][\A u \in Inst : u # call'.inst => vv'[u].fluidState = vv[u].fluidState]_vars

\* an update with a hint has run and has produced a fluid state of its own
C2_Witness ==
    /\ call.op = "update"
    /\ call.hint # NoHint
    /\ vv[call.inst].fluidState.x # vv[call.hint].fluidState.x

\* C3: update never modifies the problem's porosity, permeability and
\* material-law parameters, and InjectionSoil::K / porosity leave the soil
\* object as constructed and return, for a position, the value fixed at
\* construction
C3_SoilDataReadOnly ==
    /\ problem = ProblemData
    /\ soil = InjectionSoilCtor
    /\ soilRet.op = "K" =>
          soilRet.ret = IsotropicTensor(IF soilRet.x[1] < layerBottomValue
                                        THEN highPermeability ELSE lowPermeability)
    /\ soilRet.op = "porosity" => soilRet.ret = soilPorosityValue

\* the volume variables have been updated from the problem data and K has
\* returned the low permeability of the layer
C3_Witness ==
    /\ call.op = "update"
    /\ soilRet.op = "K"
    /\ soilRet.ret = IsotropicTensor(lowPermeability)
    /\ vv[1].porosity = ProblemData.porosity[call.dofIdx]

\* C14: K(x) is the isotropic tensor diag(1e-12) for x[1] < 22 and diag(5e-14)
\* for x[1] >= 22 (x[1] = 22 belongs to the low-permeable layer), in units of
\* 1e-14 m^2 100 and 5; every injection position, 5 < x[1] < 15, lies in the
\* high-permeable region
C14_LayeredPermeability ==
    soilRet.op = "K" =>
        LET K == soilRet.ret
            x1 == soilRet.x[1]
        IN  /\ \A i \in Dims, j \in Dims : i # j => K[i][j] = 0
            /\ \A i \in Dims : K[i][i] = K[0][0]
            /\ x1 < 22 => K[0][0] = 100
            /\ x1 >= 22 => K[0][0] = 5
            /\ (5 < x1 /\ x1 < 15) => K[0][0] = 100

\* K has been evaluated on the bottom of the low-permeable layer
C14_Witness ==
    /\ soilRet.op = "K"
    /\ soilRet.x[1] = 22
    /\ soilRet.ret[1][1] = 5
    /\ soilRet.ret[0][1] = 0

----------------------------------------------------------------------------
(* Claims about MultiPhaseBaseProblem                                       *)

DefaultThrowing ==
    {"intrinsicPermeability", "porosity", "heatCapacitySolid", "heatConductionParams",
     "tortuosity", "dispersivity", "temperature"}

\* the vector (0, ..., 0, -9.81) if EnableGravity is set, else (0, ..., 0)
ExpectedGravity ==
    [i \in WorldDims |-> IF enableGravity /\ i = dimWorld - 1 THEN -981 ELSE 0]

\* C4: gravity() is (0, ..., -9.81) with the non-zero entry in the last
\* coordinate if EnableGravity is true and the zero vector otherwise, in
\* every state after construction, whatever has been called; and
\* gravity(context, spaceIdx, timeIdx) returns what gravity() of the problem
\* returns, for every index
C4_Gravity ==
    /\ gravity_ = ExpectedGravity
    /\ probRet.op = "MultiPhaseBaseProblem::gravity" => probRet.ret = Returns(ExpectedGravity)
    /\ (probRet.op = "gravityCtx" /\ "gravityCtx" \notin overloaded) =>
          probRet.ret = Returns(IF "gravity" \in overloaded THEN ImplGravity
                                ELSE ExpectedGravity)

\* gravity(context, ...) of the base class has returned the gravity of a
\* problem constructed with EnableGravity set
C4_Witness ==
    /\ probRet.op = "gravityCtx"
    /\ probRet.spaceIdx = 2
    /\ overloaded = {"temperature"}
    /\ enableGravity
    /\ probRet.ret.value[dimWorld - 1] = -981
    /\ probRet.ret.value[0] = 0

\* C5: the default intersectionIntrinsicPermeability sets every entry of
\* result, off-diagonal ones included, to the harmonic mean 2ab/(a+b) of the
\* entries of the permeabilities of the interior and the exterior finite
\* volume (0 if one of them is 0), so swapping the two gives the same result
C5_HarmonicMean ==
    (probRet.op = "intersectionIntrinsicPermeability" /\ probRet.ret.outcome = "value") =>
        /\ \A i \in WorldDims, j \in WorldDims :
              LET k1 == ImplIntrinsicPermeability(probRet.interiorIndex)[i][j]
                  k2 == ImplIntrinsicPermeability(probRet.exteriorIndex)[i][j]
              IN  /\ (k1 > 0 /\ k2 > 0) => result[i][j] * (k1 + k2) = 2 * k1 * k2
                  /\ (k1 = 0 \/ k2 = 0) => result[i][j] = 0
        /\ result = intersectionIntrinsicPermeability(overloaded, gravity_, probRet.before,
                        probRet.exteriorIndex, probRet.interiorIndex).result

\* the permeabilities of two different finite volumes with different
\* off-diagonal entries (2 and 6) have been averaged
C5_Witness ==
    /\ probRet.op = "intersectionIntrinsicPermeability"
    /\ probRet.ret.outcome = "value"
    /\ probRet.interiorIndex = 0
    /\ probRet.exteriorIndex = 2
    /\ result[0][dimWorld - 1] = 3
    /\ result[0][0] = 3

\* C6: intrinsicPermeability, porosity, heatCapacitySolid,
\* heatConductionParams, tortuosity, dispersivity and temperature() raise
\* std::logic_error unless the problem overloads them; temperature(context,
\* ...) delegates to the temperature() of the implementation, so it raises
\* the error when neither is overloaded; intersectionIntrinsicPermeability
\* without intrinsicPermeability raises the error and leaves result as it was
C6_DefaultsThrow ==
    /\ probRet.op \in DefaultThrowing =>
          IF probRet.op \in overloaded
          THEN probRet.ret.outcome = "value"
          ELSE probRet.ret.outcome = "logic_error"
    /\ (probRet.op = "temperatureCtx" /\ "temperatureCtx" \notin overloaded) =>
          IF "temperature" \in overloaded
          THEN probRet.ret = Returns(ImplValue("temperature", probRet.spaceIdx))
          ELSE probRet.ret.outcome = "logic_error"
    /\ (probRet.op = "intersectionIntrinsicPermeability"
            /\ "intrinsicPermeability" \notin overloaded) =>
          /\ probRet.ret.outcome = "logic_error"
          /\ result = probRet.before

\* temperature(context, ...) has been called on a problem that overloads
\* neither temperature method
C6_Witness ==
    /\ probRet.op = "temperatureCtx"
    /\ overloaded = {"intrinsicPermeability"}
    /\ probRet.ret.outcome = "logic_error"

\* C7: markForGridAdaptation returns the number of interior elements (over
\* all processes) whose mark after the call is +1 or -1, each counted once
C7_ReturnsNumberOfMarkedElements ==
    markRet.op = "markForGridAdaptation" =>
        markRet.numMarked = Cardinality({e \in Elements : marks[e] \in {1, -1}})

----------------------------------------------------------------------------
(* Claims about the output modules                                          *)

\* the parameter that governs each buffer, and the name it is written under
GoverningParam(buffer) ==
    CASE buffer = "gasDissolutionFactor_"              -> "VtkWriteGasDissolutionFactor"
      [] buffer = "saturatedOilGasDissolutionFactor_"  -> "VtkWriteSaturatedOilGasDissolutionFactor"
      [] buffer = "gasFormationVolumeFactor_"          -> "VtkWriteGasFormationVolumeFactor"
      [] buffer = "saturatedOilFormationVolumeFactor_" -> "VtkWriteOilFormationVolumeFactor"
      [] buffer = "oilSaturationPressure_"             -> "VtkWriteOilSaturationPressure"

OutputOrder ==
    <<[name |-> "R_s", buffer |-> "gasDissolutionFactor_"],
      [name |-> "R_s,sat", buffer |-> "saturatedOilGasDissolutionFactor_"],
      [name |-> "B_g", buffer |-> "gasFormationVolumeFactor_"],
      [name |-> "B_o", buffer |-> "saturatedOilFormationVolumeFactor_"],
      [name |-> "pressure_sat,o", buffer |-> "oilSaturationPressure_"]>>

Enabled(entry) == params[GoverningParam(entry.buffer)]

\* C8: with the parameters fixed, allocBuffers resizes a buffer if and only
\* if its flag is set and processElement writes a buffer only if that flag is
\* set, so once allocBuffers has run processElement never writes into a
\* buffer that was not allocated; the B_o buffer follows
\* VtkWriteOilFormationVolumeFactor in allocation, writing and committing
C8_FlagsGovernBuffers ==
    /\ \A b \in BufferNames : Len(buffers[b]) > 0 => params[GoverningParam(b)]
    /\ allocated =>
          /\ vtkState = "ok"
          /\ \A b \in BufferNames :
                params[GoverningParam(b)] => Len(buffers[b]) = Cardinality(GridDofs)
    /\ (vtkCall.op = "commitBuffers" /\ vtkCall.writerType = "VtkMultiWriter") =>
          (params["VtkWriteOilFormationVolumeFactor"] <=>
              \E k \in 1..Len(vtkCall.committed) : vtkCall.committed[k].name = "B_o")

\* after allocBuffers, processElement has written the B_o buffer while the
\* flag of B_g is off
C8_Witness ==
    /\ allocated
    /\ vtkCall.op = "processElement"
    /\ params["VtkWriteOilFormationVolumeFactor"]
    /\ ~params["VtkWriteGasFormationVolumeFactor"]
    /\ \E i \in 1..Len(buffers["saturatedOilFormationVolumeFactor_"]) :
          buffers["saturatedOilFormationVolumeFactor_"][i] = 42

\* C9: commitBuffers on a VTK multi-writer commits exactly the buffers whose
\* flag is set, each once, under the names and in the order R_s, R_s,sat,
\* B_g, B_o, pressure_sat,o; with all five flags false (the defaults) nothing
\* is allocated, written or committed
C9_CommitsEnabledBuffers ==
    /\ (vtkCall.op = "commitBuffers" /\ vtkCall.writerType = "VtkMultiWriter") =>
          vtkCall.committed = SelectSeq(OutputOrder, Enabled)
    /\ params = DefaultParams =>
          /\ \A b \in BufferNames : buffers[b] = <<>>
          /\ vtkCall.op = "commitBuffers" => vtkCall.committed = <<>>

\* three of the five buffers have been committed to a VTK multi-writer
C9_Witness ==
    /\ vtkCall.op = "commitBuffers"
    /\ vtkCall.writerType = "VtkMultiWriter"
    /\ Len(vtkCall.committed) = 3
    /\ vtkCall.committed[3].name = "pressure_sat,o"
    /\ allocated

\* C10: every buffer addOutputVtkFields allocates from the writer and fills
\* (pN, delP, Xw, T, rho, mu, h, velocity and the process rank) is attached to
\* the writer exactly once before the call returns
C10_EveryBufferAttached ==
    stokesCall.op = "addOutputVtkFields" =>
        \A k \in 1..Len(writer.managed) :
            Cardinality({a \in 1..Len(writer.attached) : writer.attached[a].buffer = k}) = 1

----------------------------------------------------------------------------
(* Claims about the steps of FlashVolumeVariables::update                    *)

\* the positions in the log of the most recent update of the calls of fn
CallsOf(fn) == {i \in DOMAIN steps : steps[i].fn = fn}

\* the position of the call of FlashSolver::solve in the log
SolveAt == CHOOSE i \in DOMAIN steps : steps[i].fn = "FlashSolver::solve"

\* C11: in an update with a hint, the fluid state handed to the flash solver
\* equals the hint's fluid state in every quantity except the temperature,
\* and its temperature is the one of the primary variables, not the hint's
C11_SolverStartsFromHint ==
    (call.op = "update" /\ call.hint # NoHint) =>
        /\ CallsOf("FlashSolver::solve") # {}
        /\ \A i \in CallsOf("FlashSolver::solve") :
              /\ steps[i].fluidState.temperature = call.priVars.temperature
              /\ [steps[i].fluidState EXCEPT !.temperature = 0]
                     = [vv[call.hint].fluidState EXCEPT !.temperature = 0]

\* an update with a hint whose temperature differs from the one of the
\* primary variables of the updated degree of freedom
C11_Witness ==
    /\ call.op = "update"
    /\ call.hint # NoHint
    /\ vv[call.hint].fluidState.temperature # call.priVars.temperature
    /\ steps[SolveAt].fluidState.x = vv[call.hint].fluidState.x

\* C12: with FlashTolerance <= 0 the tolerance handed to the flash solver is
\* ten times smaller than the base epsilon of the local Jacobian; with
\* FlashTolerance > 0 the parameter is handed over unchanged
C12_ToleranceTenTimesSmaller ==
    \A i \in CallsOf("FlashSolver::solve") :
        IF flashTolerance <= 0
        THEN 10 * steps[i].tolerance = baseEpsilon
        ELSE steps[i].tolerance = flashTolerance

\* the closure steps of update, in the order the claim gives them
ClosureOrder ==
    <<"ParentType::update", "EnergyVolumeVariables::updateTemperatures_",
      "FlashSolver::solve">>
    \o [p \in 1..numPhases |-> "FluidSystem::viscosity"]
    \o <<"MaterialLaw::relativePermeabilities", "Problem::porosity",
         "Problem::intrinsicPermeability", "VelocityVolumeVariables::update_",
         "EnergyVolumeVariables::update_", "DiffusionVolumeVariables::update_">>

IsClosureStep(s) == \E k \in DOMAIN ClosureOrder : s.fn = ClosureOrder[k]

\* the calls that read the fluid state the flash solver has to have left
ReadsSolvedState ==
    {"FluidSystem::viscosity", "MaterialLaw::relativePermeabilities",
     "EnergyVolumeVariables::update_", "DiffusionVolumeVariables::update_"}

\* C16: every update performs the closure steps exactly once each and in the
\* order parent update, temperature, flash solve, viscosity of every phase,
\* relative permeabilities, porosity, intrinsic permeability, velocity,
\* energy, diffusion; viscosities, relative permeabilities, energy and
\* diffusion are computed from the fluid state the flash solve of the same
\* update has left
C16_ClosureStepsInOrder ==
    call.op = "update" =>
        LET closure == SelectSeq(steps, IsClosureStep)
        IN  /\ [k \in DOMAIN closure |-> closure[k].fn] = ClosureOrder
            /\ \A p \in Phases :
                  Cardinality({i \in CallsOf("FluidSystem::viscosity") :
                                  steps[i].phaseIdx = p}) = 1
            /\ \A i \in DOMAIN steps :
                  steps[i].fn \in ReadsSolvedState =>
                      /\ i > SolveAt
                      /\ steps[i].fluidState.x
                             = solve(steps[SolveAt].fluidState,
                                     steps[SolveAt].materialParams,
                                     steps[SolveAt].cTotal).x

\* a second update of the same instance has gone through all its steps
C16_Witness ==
    /\ call.op = "update"
    /\ call.again
    /\ Len(steps) = Len(ClosureOrder) + 1
    /\ steps[Len(steps)].fn = "DiffusionVolumeVariables::update_"

\* C17: each update calls FlashSolver::solve exactly once, with
\* priVars[cTot0Idx + c] for every component c as the total molar densities;
\* before that call the fluid state is initialised exactly once: assigned from
\* the hint if there is one, by guessInitial if and only if there is none
C17_OneSolveOneInitialisation ==
    call.op = "update" =>
        /\ Cardinality(CallsOf("FlashSolver::solve")) = 1
        /\ steps[SolveAt].cTotal = [c \in Components |-> call.priVars.cTot[c]]
        /\ Cardinality(CallsOf("FluidState::assign"))
               = (IF call.hint # NoHint THEN 1 ELSE 0)
        /\ Cardinality(CallsOf("FlashSolver::guessInitial"))
               = (IF call.hint = NoHint THEN 1 ELSE 0)
        /\ \A i \in CallsOf("FluidState::assign") \cup CallsOf("FlashSolver::guessInitial") :
              i < SolveAt
        /\ \A i \in CallsOf("FluidState::assign") :
              steps[i].fluidState = vv[call.hint].fluidState

\* an update with a hint and with differing total molar densities has called
\* the flash solver
C17_Witness ==
    /\ call.op = "update"
    /\ call.hint # NoHint
    /\ call.priVars.cTot[0] # call.priVars.cTot[1]
    /\ CallsOf("FlashSolver::guessInitial") = {}
    /\ steps[SolveAt].cTotal[1] = 1

----------------------------------------------------------------------------
(* Claims about InjectionProblem                                             *)

\* C13: the Neumann flux J is non-zero (-1e-3 in the switch component, for
\* 5 < x[1] < 15) only at positions on the right boundary and its pressure
\* component is always 0; at every other position of the boundary whose
\* type is Neumann J is zero in both components; the source term q is zero
\* everywhere
C13_InjectionOnlyOnRightBoundary ==
    /\ injRet.op = "J" =>
          /\ injRet.ret[pWIdx] = 0
          /\ injRet.ret[switchIdx] # 0 =>
                /\ injRet.ret[switchIdx] = -1000
                /\ 5 < injRet.x[1] /\ injRet.x[1] < 15
          /\ (bctype(inj, injRet.x)[switchIdx] = "neumann"
                 /\ injRet.x[0] # GridUpperRight[0]) =>
                \A e \in Equations : injRet.ret[e] = 0
    /\ injRet.op = "q" => \A e \in Equations : injRet.ret[e] = 0

\* C19: bctype gives both equations the same type: Dirichlet if x[0] < eps_,
\* Neumann otherwise, with eps_ = 1e-8 * outerUpperRight[0] as set by the
\* constructor; with the default outerUpperRight eps_ is 0 and no boundary
\* position with x[0] >= 0 is a Dirichlet position
C19_BoundaryTypes ==
    /\ inj.eps_ = inj.outerUpperRight_[0]
    /\ inj.eps_ < 100000000
    /\ inj.outerUpperRight_ = DefaultCorner => inj.eps_ = 0
    /\ injRet.op = "bctype" =>
          /\ injRet.ret[pWIdx] = injRet.ret[switchIdx]
          /\ injRet.ret[pWIdx] \in {"dirichlet", "neumann"}
          /\ injRet.ret[pWIdx] = "dirichlet" <=>
                (injRet.x[0] < 1 /\ injRet.x[0] * 100000000 < inj.eps_)
          /\ (inj.outerUpperRight_ = DefaultCorner /\ injRet.x[0] >= 0) =>
                \A e \in Equations : injRet.ret[e] = "neumann"

\* bctype has made a position on the left boundary a Dirichlet position of
\* a problem constructed with the corners of the grid
C19_Witness ==
    /\ injRet.op = "bctype"
    /\ inj.outerUpperRight_ = GridUpperRight
    /\ injRet.x[0] = 0
    /\ injRet.ret[switchIdx] = "dirichlet"

\* C20: g(x) and initial(x) both return the pressure
\* 1e5 - 1000 * gravity_[1] * (depthBOR_ - x[1]), which is 1e5 at
\* x[1] = depthBOR_ and larger for smaller x[1] since gravity_[1] = -9.81,
\* and the switch variable 1e-6; initialPhaseState returns waterPhase (1) at
\* every position
C20_HydrostaticValues ==
    /\ injRet.op \in {"g", "initial"} =>
          LET p == injRet.ret[pWIdx]
              x1 == injRet.x[1]
          IN  /\ 100 * p = 10000000 - 1000 * inj.gravity_[1] * (inj.depthBOR_ - x1)
              /\ inj.gravity_[1] = -981
              /\ x1 = inj.depthBOR_ => p = 100000
              /\ x1 < inj.depthBOR_ => p > 100000
              /\ injRet.ret[switchIdx] = 1
              /\ injRet.ret = InjectionG(inj, injRet.x)
              /\ injRet.ret = initial(inj, injRet.x)
    /\ injRet.op = "initialPhaseState" => injRet.ret.state = 1

\* initial has been evaluated 33 m above the bottom of the reservoir, at the
\* injection side of the domain
C20_Witness ==
    /\ injRet.op = "initial"
    /\ injRet.x = Position(60, 7)
    /\ inj.depthBOR_ = 40
    /\ injRet.ret[pWIdx] = 100000 + 9810 * 33

----------------------------------------------------------------------------
(* Claims about the program co2injection_immiscible_ni_ecfv                  *)

\* C15: the program simulates the injection problem with the VCVF
\* discretization, immiscible and with energy enabled: its type tag inherits
\* the immiscible model and the CO2 injection base problem, sets EnableEnergy
\* to true and selects the VCVF discretization, and the exit status of the
\* process is the value Ewoms::start returned
C15_VcvfImmiscibleWithEnergy ==
    /\ prog.typeTag.parents = <<"ImmiscibleModel", "Co2InjectionBaseProblem">>
    /\ prog.pc # "main" =>
          /\ prog.enableEnergy = "true"
          /\ prog.discretization = "VcvfDiscretization"
    /\ prog.pc = "exited" => prog.exitStatus = prog.startRet

----------------------------------------------------------------------------
(* Claims about the entries VtkBlackOilModule::processElement writes         *)

\* the positions in a buffer of the primary degrees of freedom of an element
EntriesOf(elem) == {globalSpaceIndex(elem, d) + 1 : d \in 0..(numPrimaryDof - 1)}

\* the local index of the degree of freedom of elem stored at position i
LocalDofAt(elem, i) ==
    CHOOSE d \in 0..(numPrimaryDof - 1) : globalSpaceIndex(elem, d) + 1 = i

\* what a processElement step may change: in every enabled buffer the entries
\* of the primary degrees of freedom of the element, each set to the quantity
\* of the fluid state of its degree of freedom, and nothing else
ProcessElementWritesOwnEntries ==
    (vtkCall'.op = "processElement" /\ vtkState' = "ok") =>
        \A b \in BufferNames :
            /\ Len(buffers'[b]) = Len(buffers[b])
            /\ \A i \in 1..Len(buffers[b]) :
                  IF params[GoverningParam(b)] /\ i \in EntriesOf(vtkCall'.elem)
                  THEN buffers'[b][i] =
                          Quantity(b, vtkCall'.fluidStates[LocalDofAt(vtkCall'.elem, i) + 1])
                  ELSE buffers'[b][i] = buffers[b][i]

\* once every element has been processed, no entry of a primary degree of
\* freedom in an enabled buffer holds the value the allocation left there
AllEntriesWritten ==
    (allocated /\ vtkState = "ok" /\ processed = 0..(NumElements - 1)) =>
        \A b \in BufferNames :
            params[GoverningParam(b)] =>
                \A elem \in 0..(NumElements - 1) :
                    \A i \in EntriesOf(elem) : buffers[b][i] # 0

\* C18: processElement writes, in each enabled buffer, exactly the entries at
\* the global indices of the primary degrees of freedom of the element and
\* leaves every other entry of every buffer and every disabled buffer
\* unchanged; after processElement has been called for every element, every
\* entry of an enabled buffer that belongs to a primary degree of freedom of
\* some element has been written
C18_WritesOwnEntriesOnly ==
    /\ [][ProcessElementWritesOwnEntries]_vars
    /\ []AllEntriesWritten

\* every element has been processed, the last one the second element, with
\* one buffer enabled and one disabled; the entry shared with the first
\* element holds the value of the second element's first degree of freedom
C18_Witness ==
    /\ allocated
    /\ vtkState = "ok"
    /\ processed = 0..(NumElements - 1)
    /\ vtkCall.op = "processElement"
    /\ vtkCall.elem = 1
    /\ params["VtkWriteGasDissolutionFactor"]
    /\ ~params["VtkWriteOilSaturationPressure"]
    /\ buffers["gasDissolutionFactor_"][2]
           = Quantity("gasDissolutionFactor_", vtkCall.fluidStates[1])
    /\ buffers["gasDissolutionFactor_"][1] # 0
    /\ buffers["oilSaturationPressure_"] = <<>>

====
